---- MODULE Spec2Model ----
(***************************************************************************)
(* Model of the text-overlay service (api/overlay.js and its variants).    *)
(*                                                                         *)
(* Three deployed variants of the same routine are present in the source:  *)
(*   "brightness" : src/api/overlay.js lines 1-341   (stroke + shadow,     *)
(*                  single-line layout, brightness-chosen colours)         *)
(*   "explicit"   : src/api/overlay.js lines 343-730 (left-aligned         *)
(*                  backdrop, caller-specified colours, wrap to 2 lines)   *)
(*   "dominant"   : src/unnamed/part_001             (centred backdrop,    *)
(*                  dominant-colour contrast, wrap to 2 lines)             *)
(*                                                                         *)
(* Numbers: widths and heights are kept exact in tenths of a pixel         *)
(* (a glyph advance is given in tenths of an em, so a line of advance a    *)
(* measures a * fontSize tenths of a pixel); brightness is kept in         *)
(* thousandths; luminance in ten-thousandths.                              *)
(***************************************************************************)
EXTENDS Integers, Sequences, FiniteSets, TLC

VARIABLES
    variant,        \* which variant of overlay.js is deployed
    phase,          \* position of the pure-function specifications
    text,           \* caption: a sequence of one-character strings
    font,           \* measureText of the effective font: advance per character
    layout,         \* { fontSize, lines } computed by step 5 of applyTextOverlay
    region,         \* getImageData of the text area: row-major pixels
    analysis,       \* result of the background analysis (step 4)
    accessible,     \* font files fs.statSync succeeds on
    aliasResult,    \* what registering a font under an explicit family name yields
    registry,       \* GlobalFonts.families: the process-wide font registry
    calls,          \* the applyTextOverlay calls of the process
    handler         \* the request the API handler is serving, and its response

pureVars == <<phase, text, font, layout, region, analysis>>
serviceVars == <<accessible, aliasResult, registry, calls, handler>>
vars == <<variant, phase, text, font, layout, region, analysis,
          accessible, aliasResult, registry, calls, handler>>

Variants == {"brightness", "dominant", "explicit"}
WrapVariants == {"dominant", "explicit"}

None == "none"

(***************************************************************************)
(* Bounds of the model.                                                    *)
(***************************************************************************)
MaxTextLen == 5
RegionPixels == 20      \* pixels of the sampled text area
MaxForeground == 2      \* pixels of the text area that differ from its background
NumCalls == 2           \* applyTextOverlay calls in one process

Chars == {"m", " "}
Advances == {5, 30, 50, 120}

(***************************************************************************)
(* OVERLAY_CONFIG                                                          *)
(***************************************************************************)
TEXT_AREA_X(v) == IF v = "explicit" THEN 40 ELSE 51
TEXT_AREA_Y(v) == IF v = "explicit" THEN 684 ELSE 60
TEXT_AREA_WIDTH(v) == IF v = "explicit" THEN 768 ELSE 922
TEXT_AREA_HEIGHT == 280
TEXT_PADDING_HORIZONTAL == 30
TEXT_PADDING_VERTICAL == 20
FONT_SIZE_MAX == 120
FONT_SIZE_MIN == 80
FONT_SIZE_STEP == 2

(***************************************************************************)
(* Text measurement and wrapping                                           *)
(***************************************************************************)
Min(a, b) == IF a < b THEN a ELSE b

\* ctx.measureText(line).width with ctx.font at `size` px, in tenths of a pixel.
RECURSIVE Advance(_, _)
Advance(f, line) ==
    IF line = <<>> THEN 0 ELSE f[Head(line)] + Advance(f, Tail(line))

measureText(f, line, size) == Advance(f, line) * size

\* A pixel length in the unit of measureText.
Px(n) == n * 10

\* text.split(' '): the words between single spaces, empty words kept.
RECURSIVE split(_)
split(s) ==
    IF s = <<>> THEN << <<>> >>
    ELSE LET rest == split(Tail(s))
         IN  IF Head(s) = " "
             THEN << <<>> >> \o rest
             ELSE << <<Head(s)>> \o Head(rest) >> \o Tail(rest)

\* A slip: the word that overflows the line is not carried to the next line.
RECURSIVE wrapLoop_DropsOverflowWord(_, _, _, _, _, _)
wrapLoop_DropsOverflowWord(f, words, lines, currentLine, size, maxWidth) ==
    IF words = <<>>
    THEN IF currentLine # <<>> THEN Append(lines, currentLine) ELSE lines
    ELSE LET word == Head(words)
             testLine == IF currentLine # <<>>
                         THEN currentLine \o <<" ">> \o word
                         ELSE word
         IN  IF measureText(f, testLine, size) > Px(maxWidth) /\ currentLine # <<>>
             THEN wrapLoop_DropsOverflowWord(f, Tail(words), Append(lines, currentLine),
                                             <<>>, size, maxWidth)
             ELSE wrapLoop_DropsOverflowWord(f, Tail(words), lines, testLine, size,
                                             maxWidth)

\* The for-loop of wrapText and its trailing push.
RECURSIVE wrapLoop(_, _, _, _, _, _)
wrapLoop(f, words, lines, currentLine, size, maxWidth) ==
    IF words = <<>>
    THEN IF currentLine # <<>> THEN Append(lines, currentLine) ELSE lines
    ELSE LET word == Head(words)
             testLine == IF currentLine # <<>>
                         THEN currentLine \o <<" ">> \o word
                         ELSE word
         IN  IF measureText(f, testLine, size) > Px(maxWidth) /\ currentLine # <<>>
             THEN wrapLoop(f, Tail(words), Append(lines, currentLine), word,
                           size, maxWidth)
             ELSE wrapLoop(f, Tail(words), lines, testLine, size, maxWidth)

wrapText(f, t, size, maxWidth) ==
    wrapLoop(f, split(t), <<>>, <<>>, size, maxWidth)

\* A slip: the 1.2 line-height multiplier forgotten.
totalHeight_NoMultiplier(lines, fontSize) == Len(lines) * fontSize * 10

\* lines.length * (fontSize * 1.2), in tenths of a pixel.
totalHeight(lines, fontSize) == Len(lines) * fontSize * 12

\* lines.slice(0, 2)
slice2(lines) == SubSeq(lines, 1, Min(2, Len(lines)))

\* The while-loop of calculateTextLayout from `fontSize` down, then the fallback.
RECURSIVE layoutLoop(_, _, _, _, _)
layoutLoop(f, t, fontSize, maxWidth, maxHeight) ==
    IF fontSize >= FONT_SIZE_MIN
    THEN IF measureText(f, t, fontSize) <= Px(maxWidth)
         THEN [fontSize |-> fontSize, lines |-> <<t>>]
         ELSE LET lines == wrapText(f, t, fontSize, maxWidth)
              IN  IF Len(lines) <= 2 /\ totalHeight(lines, fontSize) <= Px(maxHeight)
                  THEN [fontSize |-> fontSize, lines |-> lines]
                  ELSE layoutLoop(f, t, fontSize - FONT_SIZE_STEP, maxWidth, maxHeight)
    ELSE [fontSize |-> FONT_SIZE_MIN,
          lines |-> slice2(wrapText(f, t, FONT_SIZE_MIN, maxWidth))]

calculateTextLayout(f, t, maxWidth, maxHeight) ==
    layoutLoop(f, t, FONT_SIZE_MAX, maxWidth, maxHeight)

\* The while-loop of calculateOptimalFontSize (single-line variant).
RECURSIVE optimalLoop(_, _, _, _)
optimalLoop(f, t, fontSize, maxWidth) ==
    IF fontSize >= FONT_SIZE_MIN
    THEN IF measureText(f, t, fontSize) <= Px(maxWidth)
         THEN fontSize
         ELSE optimalLoop(f, t, fontSize - FONT_SIZE_STEP, maxWidth)
    ELSE FONT_SIZE_MIN

calculateOptimalFontSize(f, t, maxWidth) ==
    optimalLoop(f, t, FONT_SIZE_MAX, maxWidth)

\* A slip: the horizontal padding taken off twice on each side.
maxTextWidth_PaddingTwice(v) == TEXT_AREA_WIDTH(v) - (TEXT_PADDING_HORIZONTAL * 4)

maxTextWidth(v) == TEXT_AREA_WIDTH(v) - (TEXT_PADDING_HORIZONTAL * 2)
maxTextHeight == TEXT_AREA_HEIGHT - (TEXT_PADDING_VERTICAL * 2)

\* Step 5 of applyTextOverlay: the layout the text is drawn with.
TextLayout(v, f, t) ==
    IF v = "brightness"
    THEN [fontSize |-> calculateOptimalFontSize(f, t, maxTextWidth(v)),
          lines |-> <<t>>]
    ELSE calculateTextLayout(f, t, maxTextWidth(v), maxTextHeight)

\* The service part of the state, in the specifications of single steps.
ServiceIdle ==
    /\ accessible = {}
    /\ aliasResult = None
    /\ registry = <<>>
    /\ calls = <<>>
    /\ handler = None

(***************************************************************************)
(* Specification of the layout step: every caption, font and variant.      *)
(***************************************************************************)
Captions == UNION {[1..n -> Chars] : n \in 1..MaxTextLen}
Fonts == [Chars -> Advances]

InitLayout ==
    /\ ServiceIdle
    /\ variant \in Variants
    /\ phase = "input"
    /\ text \in Captions
    /\ font \in Fonts
    /\ layout = None
    /\ region = <<>>
    /\ analysis = None

LayoutStep ==
    /\ phase = "input"
    /\ layout' = TextLayout(variant, font, text)
    /\ phase' = "done"
    /\ UNCHANGED <<variant, text, font, region, analysis, serviceVars>>

NextLayout == LayoutStep

SpecLayout == InitLayout /\ [][NextLayout]_vars

(***************************************************************************)
(* Specification of wrapText alone: every caption over two letters and the *)
(* space, every font, at the ends of the size range and for a narrow and   *)
(* the two configured widths.                                              *)
(***************************************************************************)
WrapChars == Chars \cup {"w"}
WrapCaptions == UNION {[1..n -> WrapChars] : n \in 1..MaxTextLen}
WrapFonts == [WrapChars -> {5, 120}]
WrapSizes == {FONT_SIZE_MIN, FONT_SIZE_MAX}
WrapWidths == {100} \cup {maxTextWidth(v) : v \in WrapVariants}

InitWrap ==
    /\ ServiceIdle
    /\ variant \in WrapVariants
    /\ phase = "input"
    /\ text \in WrapCaptions
    /\ font \in WrapFonts
    /\ layout = None
    /\ region = <<>>
    /\ analysis = None

\* wrapText(ctx, text, maxWidth) with ctx.font at `size` px.
WrapStep ==
    /\ phase = "input"
    /\ \E size \in WrapSizes, maxWidth \in WrapWidths :
          layout' = [fontSize |-> size, maxWidth |-> maxWidth,
                     lines |-> wrapText(font, text, size, maxWidth)]
    /\ phase' = "wrapped"
    /\ UNCHANGED <<variant, text, font, region, analysis, serviceVars>>

NextWrap == WrapStep

SpecWrap == InitWrap /\ [][NextWrap]_vars

(***************************************************************************)
(* Background analysis                                                     *)
(***************************************************************************)
Pixel(r, g, b) == [r |-> r, g |-> g, b |-> b]

\* ctx.getImageData(...).data: RGBA bytes, row-major; data[i] is Data[i + 1].
getImageData(reg) ==
    [k \in 1..(4 * Len(reg)) |->
        LET p == reg[((k - 1) \div 4) + 1]
            c == (k - 1) % 4
        IN  IF c = 0 THEN p.r ELSE IF c = 1 THEN p.g ELSE IF c = 2 THEN p.b ELSE 255]

\* The offsets i = 0, 40, 80, ... < data.length visited by the sampling loops.
SampleOffsets(data) == [j \in 1..((Len(data) + 39) \div 40) |-> 40 * (j - 1)]

\* The loop of calculateRegionBrightness: totalBrightness in thousandths.
RECURSIVE brightnessLoop(_, _, _, _)
brightnessLoop(data, offsets, totalBrightness, pixelCount) ==
    IF offsets = <<>>
    THEN [total |-> totalBrightness, count |-> pixelCount]
    ELSE LET i == Head(offsets)
             r == data[i + 1]
             g == data[i + 2]
             b == data[i + 3]
             brightness == 299 * r + 587 * g + 114 * b
         IN  brightnessLoop(data, Tail(offsets), totalBrightness + brightness,
                            pixelCount + 1)

\* totalBrightness / pixelCount, kept as the pair (total in thousandths, count).
calculateRegionBrightness(reg) ==
    LET data == getImageData(reg)
    IN  brightnessLoop(data, SampleOffsets(data), 0, 0)

\* A slip: the midpoint itself counted as light.
isLightBackground_AtLeast(avg) == avg.total >= 128 * 1000 * avg.count

\* avgBrightness > 128
isLightBackground(avg) == avg.total > 128 * 1000 * avg.count

TEXT_SHADOW_LIGHT == [color |-> "rgba(0, 0, 0, 0.8)", blur |-> 8, offsetX |-> 3, offsetY |-> 3]
TEXT_SHADOW_DARK == [color |-> "rgba(255, 255, 255, 0.8)", blur |-> 8, offsetX |-> 3, offsetY |-> 3]

\* Step 4 of applyTextOverlay, brightness variant.
BrightnessAnalysis(reg) ==
    LET avgBrightness == calculateRegionBrightness(reg)
        light == isLightBackground(avgBrightness)
    IN  [avgBrightness |-> avgBrightness,
         textColor |-> IF light THEN "#000000" ELSE "#FFFFFF",
         strokeColor |-> IF light THEN "#FFFFFF" ELSE "#000000",
         textShadow |-> IF light THEN TEXT_SHADOW_DARK ELSE TEXT_SHADOW_LIGHT]

\* Math.floor(c / 32) * 32
bucket(c) == (c \div 32) * 32

\* The first loop of extractDominantColor: colorBuckets as its entries in
\* insertion order (Object.entries order of string keys).
RECURSIVE bump(_, _)
bump(entries, key) ==
    IF entries = <<>> THEN << [key |-> key, count |-> 1] >>
    ELSE IF Head(entries).key = key
         THEN << [key |-> key, count |-> Head(entries).count + 1] >> \o Tail(entries)
         ELSE << Head(entries) >> \o bump(Tail(entries), key)

RECURSIVE tallyLoop(_, _, _)
tallyLoop(data, offsets, colorBuckets) ==
    IF offsets = <<>> THEN colorBuckets
    ELSE LET i == Head(offsets)
             key == Pixel(bucket(data[i + 1]), bucket(data[i + 2]), bucket(data[i + 3]))
         IN  tallyLoop(data, Tail(offsets), bump(colorBuckets, key))

\* The second loop of extractDominantColor: the first entry of greatest count.
RECURSIVE mostCommonLoop(_, _, _)
mostCommonLoop(entries, maxCount, dominantKey) ==
    IF entries = <<>> THEN dominantKey
    ELSE IF Head(entries).count > maxCount
         THEN mostCommonLoop(Tail(entries), Head(entries).count, Head(entries).key)
         ELSE mostCommonLoop(Tail(entries), maxCount, dominantKey)

extractDominantColor(reg) ==
    LET data == getImageData(reg)
        colorBuckets == tallyLoop(data, SampleOffsets(data), <<>>)
    IN  mostCommonLoop(colorBuckets, 0, Pixel(128, 128, 128))

\* The sRGB-to-linear transform of calculateLuminance,
\* c / 255 <= 0.03928 ? c / 12.92 : ((c + 0.055) / 1.055) ^ 2.4,
\* in ten-thousandths, tabulated for the bucket levels and for 255.
LinearChannel(c) ==
    CASE c = 0   -> 0
      [] c = 32  -> 144
      [] c = 64  -> 513
      [] c = 96  -> 1170
      [] c = 128 -> 2159
      [] c = 160 -> 3515
      [] c = 192 -> 5271
      [] c = 224 -> 7454
      [] c = 255 -> 10000

\* 0.2126 * rs + 0.7152 * gs + 0.0722 * bs, rounded to ten-thousandths.
calculateLuminance(r, g, b) ==
    (2126 * LinearChannel(r) + 7152 * LinearChannel(g) + 722 * LinearChannel(b) + 5000)
        \div 10000

Max(a, b) == IF a > b THEN a ELSE b

\* (lighter + 0.05) / (darker + 0.05), kept as a fraction.
getContrastRatio(r1, g1, b1, r2, g2, b2) ==
    LET lum1 == calculateLuminance(r1, g1, b1)
        lum2 == calculateLuminance(r2, g2, b2)
        lighter == Max(lum1, lum2)
        darker == Min(lum1, lum2)
    IN  [num |-> lighter + 500, den |-> darker + 500]

\* Comparisons of contrast ratios: a >= b, and a >= 4.5.
RatioGE(a, b) == a.num * b.den >= b.num * a.den
RatioGE45(a) == 10 * a.num >= 45 * a.den

\* A slip: white whenever it reaches the AA threshold, whatever black reaches.
getContrastingTextColor_ThresholdOnly(dominantColor) ==
    LET whiteContrast == getContrastRatio(dominantColor.r, dominantColor.g,
                                          dominantColor.b, 255, 255, 255)
    IN  IF RatioGE45(whiteContrast) THEN "#FFFFFF" ELSE "#000000"

getContrastingTextColor(dominantColor) ==
    LET r == dominantColor.r
        g == dominantColor.g
        b == dominantColor.b
        whiteContrast == getContrastRatio(r, g, b, 255, 255, 255)
        blackContrast == getContrastRatio(r, g, b, 0, 0, 0)
    IN  IF RatioGE(whiteContrast, blackContrast) /\ RatioGE45(whiteContrast)
        THEN "#FFFFFF"
        ELSE IF RatioGE45(blackContrast)
             THEN "#000000"
             ELSE IF RatioGE(whiteContrast, blackContrast) THEN "#FFFFFF" ELSE "#000000"

\* Step 4 of applyTextOverlay, dominant-colour variant (and the backdrop colour
\* of step 9, the opposite of the text colour).
DominantAnalysis(reg) ==
    LET dominantColor == extractDominantColor(reg)
        textColor == getContrastingTextColor(dominantColor)
    IN  [dominantColor |-> dominantColor,
         textColor |-> textColor,
         backdropColor |-> IF textColor = "#FFFFFF" THEN "0, 0, 0" ELSE "255, 255, 255"]

(***************************************************************************)
(* Specification of the background analysis: text areas of two colours,    *)
(* a background and at most MaxForeground pixels of a foreground.          *)
(***************************************************************************)
White == Pixel(255, 255, 255)
Black == Pixel(0, 0, 0)
Red == Pixel(255, 0, 0)
Blue == Pixel(0, 0, 255)
Grey == Pixel(128, 128, 128)
Palette == {White, Black, Red, Blue, Grey}

Regions ==
    {[i \in 1..RegionPixels |-> IF i \in S THEN fg ELSE bg] :
        S \in {T \in SUBSET (1..RegionPixels) : Cardinality(T) <= MaxForeground},
        fg \in Palette, bg \in Palette}

InitColor ==
    /\ ServiceIdle
    /\ variant \in {"brightness", "dominant"}
    /\ phase = "input"
    /\ text = <<>>
    /\ font = None
    /\ layout = None
    /\ region \in Regions
    /\ analysis = None

BrightnessStep ==
    /\ phase = "input"
    /\ variant = "brightness"
    /\ analysis' = BrightnessAnalysis(region)
    /\ phase' = "done"
    /\ UNCHANGED <<variant, text, font, layout, region, serviceVars>>

DominantStep ==
    /\ phase = "input"
    /\ variant = "dominant"
    /\ analysis' = DominantAnalysis(region)
    /\ phase' = "done"
    /\ UNCHANGED <<variant, text, font, layout, region, serviceVars>>

NextColor == BrightnessStep \/ DominantStep

SpecColor == InitColor /\ [][NextColor]_vars

(***************************************************************************)
(* Specification of getContrastingTextColor: every bucketed colour.        *)
(***************************************************************************)
BucketLevels == {bucket(c) : c \in 0..255}
BucketColors == {Pixel(r, g, b) : r \in BucketLevels, g \in BucketLevels, b \in BucketLevels}

InitContrast ==
    /\ ServiceIdle
    /\ variant = "dominant"
    /\ phase = "input"
    /\ text = <<>>
    /\ font = None
    /\ layout = None
    /\ region = <<>>
    /\ analysis \in {[dominantColor |-> c, textColor |-> None] : c \in BucketColors}

ContrastStep ==
    /\ phase = "input"
    /\ analysis' = [analysis EXCEPT !.textColor = getContrastingTextColor(analysis.dominantColor)]
    /\ phase' = "done"
    /\ UNCHANGED <<variant, text, font, layout, region, serviceVars>>

NextContrast == ContrastStep

SpecContrast == InitContrast /\ [][NextContrast]_vars

(***************************************************************************)
(* Font resolution (step 1 of applyTextOverlay)                            *)
(***************************************************************************)
\* The own keys of FONT_FAMILIES.
FontFamilyNames(v) ==
    IF v = "explicit"
    THEN {"Inter", "Poppins", "Montserrat", "Oswald", "Product Sans"}
    ELSE {"Inter", "Poppins", "Montserrat", "Oswald"}

FontFileOf(v, name) ==
    IF v = "explicit" THEN "Montserrat-VariableFont_wght.ttf"
    ELSE CASE name = "Inter" -> "Inter-Bold.ttf"
           [] name = "Poppins" -> "Poppins-Bold.ttf"
           [] name = "Montserrat" -> "Montserrat-Bold.ttf"
           [] name = "Oswald" -> "Oswald-SemiBold.ttf"

FontFiles(v) == {FontFileOf(v, n) : n \in FontFamilyNames(v)}

\* Property names the object literal FONT_FAMILIES inherits from
\* Object.prototype: a lookup of one of them yields a function, not undefined.
ObjectPrototypeKeys == {"constructor", "toString"}

\* FONT_FAMILIES[styleConfig.fontFamily]
FONT_FAMILIES(v, name) ==
    IF name \in FontFamilyNames(v)
    THEN [type |-> "string", value |-> FontFileOf(v, name)]
    ELSE IF name \in ObjectPrototypeKeys
         THEN [type |-> "function", value |-> name]
         ELSE [type |-> "undefined", value |-> ""]

\* A slip: the existence check never throws.
statSync_NeverThrows(files, fontFile) == TRUE

\* fs.statSync(fontPath) returns (TRUE) or throws (FALSE).
statSync(files, fontFile) == fontFile \in files

\* The family name embedded in a font file.
InternalName(fontFile) ==
    CASE fontFile = "Inter-Bold.ttf" -> "Inter"
      [] fontFile = "Poppins-Bold.ttf" -> "Poppins"
      [] fontFile = "Montserrat-Bold.ttf" -> "Montserrat"
      [] fontFile = "Oswald-SemiBold.ttf" -> "Oswald"
      [] fontFile = "Montserrat-VariableFont_wght.ttf" -> "Montserrat"

HasFamily(reg, name) == \E i \in 1..Len(reg) : reg[i].family = name

\* GlobalFonts.registerFromPath(fontPath, styleConfig.fontFamily): the family
\* appears under the given name with styles, with no styles, or not at all,
\* as the platform has it (alias); a family already registered stays.
registerFromPath(reg, fontFile, name, alias) ==
    IF alias = "absent" \/ HasFamily(reg, name) THEN reg
    ELSE Append(reg, [family |-> name, styles |-> IF alias = "styles" THEN 1 ELSE 0])

\* GlobalFonts.registerFromPath(fontPath): the font under its internal name.
registerFromPathInternal(reg, fontFile) ==
    LET name == InternalName(fontFile)
    IN  IF HasFamily(reg, name)
        THEN [i \in 1..Len(reg) |->
                 IF reg[i].family = name THEN [family |-> name, styles |-> 1] ELSE reg[i]]
        ELSE Append(reg, [family |-> name, styles |-> 1])

\* Array.prototype.find: the index of the first element of S, 0 for undefined.
FirstIndex(S) == IF S = {} THEN 0 ELSE CHOOSE i \in S : \A j \in S : i <= j

\* f.family.toLowerCase().includes(name.toLowerCase()): none of the family
\* names of this model contains another or differs from it in case only.
NameIncludes(family, name) == family = name

Op(name, line, color, opacity, shadow) ==
    [op |-> name, line |-> line, color |-> color, opacity |-> opacity, shadow |-> shadow]

PlainOp(name) == Op(name, 0, "", 100, None)

\* A slip: the family registered last is the one used.
Resolution_LatestFamily(error, reg, ops, family, hasStyles) ==
    [error |-> error, registry |-> reg, ops |-> ops,
     fontFamilyToUse |-> IF reg # <<>> THEN reg[Len(reg)].family ELSE family,
     hasStyles |-> hasStyles]

Resolution(error, reg, ops, family, hasStyles) ==
    [error |-> error, registry |-> reg, ops |-> ops,
     fontFamilyToUse |-> family, hasStyles |-> hasStyles]

\* Step 1 of applyTextOverlay: lines 475-521.
FontResolution(v, reg, files, alias, name) ==
    LET fontFileName == FONT_FAMILIES(v, name)
    IN  IF fontFileName.type = "undefined"
        THEN Resolution("Unknown font family", reg, <<>>, name, FALSE)
        ELSE IF fontFileName.type # "string"
        THEN \* path.join(__dirname, '..', 'fonts', fontFileName) throws a TypeError
             Resolution("ERR_INVALID_ARG_TYPE", reg, <<>>, name, FALSE)
        ELSE IF ~statSync(files, fontFileName.value)
        THEN Resolution("Font file not accessible", reg, <<PlainOp("statSync")>>, name, FALSE)
        ELSE
          LET reg1 == registerFromPath(reg, fontFileName.value, name, alias)
              i1 == FirstIndex({i \in 1..Len(reg1) : reg1[i].family = name})
          IN  IF i1 = 0 \/ (i1 # 0 /\ reg1[i1].styles = 0)
              THEN LET reg2 == registerFromPathInternal(reg1, fontFileName.value)
                       i2 == FirstIndex({i \in 1..Len(reg2) :
                                 NameIncludes(reg2[i].family, name) \/ reg2[i].styles > 0})
                   IN  Resolution(None, reg2,
                           <<PlainOp("statSync"), PlainOp("registerFromPath"),
                             PlainOp("registerFromPath")>>,
                           IF i2 # 0 THEN reg2[i2].family ELSE name,
                           i2 # 0 /\ reg2[i2].styles > 0)
              ELSE Resolution(None, reg1,
                       <<PlainOp("statSync"), PlainOp("registerFromPath")>>,
                       reg1[i1].family, reg1[i1].styles > 0)

(***************************************************************************)
(* Composition (steps 2-11 of applyTextOverlay)                            *)
(***************************************************************************)
\* The weight of ctx.font in step 6.
fontWeight(v, hasStyles) ==
    IF v = "explicit" THEN "500" ELSE IF hasStyles THEN "700" ELSE "bold"

BACKDROP_OPACITY(v) == IF v = "explicit" THEN 90 ELSE 60    \* hundredths

BACKDROP_PADDING == 20

\* Steps 7 and 8 of the backdrop variants.  Positions and sizes are kept
\* exact in twentieths of a pixel, so that the halves the code takes are
\* whole numbers.
P20(px) == px * 20

textX(v) ==
    IF v = "explicit"
    THEN P20(TEXT_AREA_X(v) + TEXT_PADDING_HORIZONTAL)
    ELSE P20(TEXT_AREA_X(v)) + P20(TEXT_AREA_WIDTH(v)) \div 2

textAreaCenterY(v) == P20(TEXT_AREA_Y(v)) + P20(TEXT_AREA_HEIGHT) \div 2

\* fontSize * 1.2
lineHeight(fontSize) == 24 * fontSize

totalTextHeight(lay) == Len(lay.lines) * lineHeight(lay.fontSize)

startY(v, lay) ==
    textAreaCenterY(v) - totalTextHeight(lay) \div 2 + lineHeight(lay.fontSize) \div 2

\* The loop of step 8: the width of the widest line.
RECURSIVE maxLineWidth(_, _, _)
maxLineWidth(f, lines, fontSize) ==
    IF lines = <<>> THEN 0
    ELSE Max(2 * measureText(f, Head(lines), fontSize),
             maxLineWidth(f, Tail(lines), fontSize))

Rect(x, y, width, height) == [x |-> x, y |-> y, width |-> width, height |-> height]

\* backdropX, backdropY, backdropWidth, backdropHeight
Backdrop(v, f, lay) ==
    LET backdropWidth == maxLineWidth(f, lay.lines, lay.fontSize) + P20(BACKDROP_PADDING) * 2
        backdropHeight == totalTextHeight(lay) + P20(BACKDROP_PADDING) * 2
        backdropX == IF v = "explicit" THEN textX(v) - P20(BACKDROP_PADDING)
                     ELSE textX(v) - backdropWidth \div 2
        backdropY == textAreaCenterY(v) - backdropHeight \div 2
    IN  Rect(backdropX, backdropY, backdropWidth, backdropHeight)

\* The box of line i (from 1) as fillText draws it at (textX, lineY) with
\* textBaseline 'middle' and textAlign 'left' (explicit) or 'center'.
LineBox(v, f, lay, i) ==
    LET width == 2 * measureText(f, lay.lines[i], lay.fontSize)
        lineY == startY(v, lay) + (i - 1) * lineHeight(lay.fontSize)
    IN  Rect(IF v = "explicit" THEN textX(v) ELSE textX(v) - width \div 2,
             lineY - lineHeight(lay.fontSize) \div 2,
             width, lineHeight(lay.fontSize))

TextArea(v) ==
    Rect(P20(TEXT_AREA_X(v)), P20(TEXT_AREA_Y(v)), P20(TEXT_AREA_WIDTH(v)),
         P20(TEXT_AREA_HEIGHT))

\* hexToRgb of step 9, for the colours of this model; grey for a non-match.
hexToRgb(hex) ==
    CASE hex = "#4A90A4" -> "74, 144, 164"
      [] hex = "#404040" -> "64, 64, 64"
      [] OTHER -> "64, 64, 64"

\* The font measureText uses in the calls of the service: 3em a letter.
ServiceFont == [c \in Chars |-> IF c = " " THEN 5 ELSE 30]

SolidRegion(p) == [i \in 1..RegionPixels |-> p]

\* A slip: the shadow of the brightness variant is left on in the loop.
FillLines_Shadowed(lines, color) ==
    [i \in 1..Len(lines) |-> Op("fillText", i, color, 100, "rgba(0, 0, 0, 0.8)")]

\* A slip: the loop runs from the last line to the first.
FillLines_BottomUp(lines, color) ==
    [i \in 1..Len(lines) |-> Op("fillText", Len(lines) + 1 - i, color, 100, None)]

\* The fillText loop of step 10.
FillLines(lines, color) == [i \in 1..Len(lines) |-> Op("fillText", i, color, 100, None)]

\* What the call does to the canvas once the image is decoded.
Compose(v, t, img, style) ==
    LET lay == TextLayout(v, ServiceFont, t)
    IN  IF v = "brightness"
        THEN LET a == BrightnessAnalysis(SolidRegion(img))
             IN  << PlainOp("drawImage"), PlainOp("getImageData"),
                    Op("strokeText", 1, a.strokeColor, 100, None),
                    Op("fillText", 1, a.textColor, 100, a.textShadow.color),
                    PlainOp("toBuffer") >>
        ELSE IF v = "dominant"
        THEN LET a == DominantAnalysis(SolidRegion(img))
             IN  << PlainOp("drawImage"), PlainOp("getImageData"),
                    Op("fill", 0, a.backdropColor, BACKDROP_OPACITY(v), None) >>
                 \o FillLines(lay.lines, a.textColor)
                 \o << PlainOp("toBuffer") >>
        ELSE LET backdropColor == IF style.backdropColor # "" THEN style.backdropColor
                                  ELSE "#404040"
                 backdropOpacity == IF style.backdropOpacity # 0 THEN style.backdropOpacity
                                    ELSE BACKDROP_OPACITY(v)
             IN  << PlainOp("drawImage"),
                    Op("fill", 0, hexToRgb(backdropColor), backdropOpacity, None) >>
                 \o FillLines(lay.lines, style.textColor)
                 \o << PlainOp("toBuffer") >>

(***************************************************************************)
(* The service: applyTextOverlay calls sharing the font registry.  A call  *)
(* runs to its one await (loadImage) in one step and from there to its end *)
(* in another; calls interleave at the await.                              *)
(***************************************************************************)
Calls == 1..NumCalls

FontFamilyInputs == {"Inter", "Oswald", "Product Sans", "Comic Sans", "constructor"}

\* The requests of the service: a caption, the colour of a solid background
\* image and a styleConfig (backdropOpacity in hundredths).
SampleRequests ==
    { [text |-> <<"m">>, image |-> White,
       style |-> [textColor |-> "#FFFFFF", backdropColor |-> "#4A90A4",
                  backdropOpacity |-> 85]],
      [text |-> <<"m", "m", " ", "m", "m">>, image |-> Black,
       style |-> [textColor |-> "#000000", backdropColor |-> "#404040",
                  backdropOpacity |-> 0]] }

IdleCall ==
    [pc |-> "idle", fontFamily |-> None, text |-> <<>>, image |-> White,
     style |-> None, error |-> None, ops |-> <<>>, fontFamilyToUse |-> None,
     hasStyles |-> FALSE, warm |-> FALSE, seen |-> 0]

Init ==
    /\ variant \in Variants
    /\ phase = "service"
    /\ text = <<>>
    /\ font = None
    /\ layout = None
    /\ region = <<>>
    /\ analysis = None
    /\ accessible \in {FontFiles(variant), FontFiles(variant) \ {FontFileOf(variant, "Inter")}}
    /\ aliasResult \in {"styles", "empty", "absent"}
    /\ registry = <<>>
    /\ calls = [c \in Calls |-> IdleCall]
    /\ handler = None

\* applyTextOverlay(backgroundImageBuffer, text, styleConfig) up to
\* `await loadImage(...)`, or to the throw that ends it before.
ApplyTextOverlayStart(c) ==
    /\ calls[c].pc = "idle"
    /\ \E name \in FontFamilyInputs, req \in SampleRequests :
          LET res == FontResolution(variant, registry, accessible, aliasResult, name)
              call == [IdleCall EXCEPT !.fontFamily = name, !.text = req.text,
                                       !.image = req.image, !.style = req.style,
                                       !.warm = HasFamily(registry, name),
                                       !.seen = Len(registry)]
          IN  /\ registry' = res.registry
              /\ calls' = [calls EXCEPT ![c] =
                    IF res.error # None
                    THEN [call EXCEPT !.pc = "failed", !.error = res.error, !.ops = res.ops]
                    ELSE [call EXCEPT !.pc = "decoding",
                              !.ops = res.ops \o <<PlainOp("createCanvas"), PlainOp("loadImage")>>,
                              !.fontFamilyToUse = res.fontFamilyToUse,
                              !.hasStyles = res.hasStyles]]
    /\ UNCHANGED <<variant, pureVars, accessible, aliasResult, handler>>

\* The rest of applyTextOverlay when loadImage rejects (the bytes are no
\* image): the call throws.
ApplyTextOverlayDecodeFails(c) ==
    /\ calls[c].pc = "decoding"
    /\ calls' = [calls EXCEPT ![c] =
          [@ EXCEPT !.pc = "failed", !.error = "Unsupported image type"]]
    /\ UNCHANGED <<variant, pureVars, accessible, aliasResult, registry, handler>>

\* The rest of applyTextOverlay when loadImage resolves: the drawing and
\* canvas.toBuffer('image/png').
ApplyTextOverlayResume(c) ==
    /\ calls[c].pc = "decoding"
    /\ calls' = [calls EXCEPT ![c] =
          [@ EXCEPT !.pc = "done",
                    !.ops = @ \o Compose(variant, calls[c].text, calls[c].image,
                                         calls[c].style)]]
    /\ UNCHANGED <<variant, pureVars, accessible, aliasResult, registry, handler>>

\* The caller has the call's result or error: the next call can be made.
ApplyTextOverlayReturn(c) ==
    /\ calls[c].pc \in {"done", "failed"}
    /\ calls' = [calls EXCEPT ![c] = IdleCall]
    /\ UNCHANGED <<variant, pureVars, accessible, aliasResult, registry, handler>>

Next ==
    \E c \in Calls :
        \/ ApplyTextOverlayStart(c)
        \/ ApplyTextOverlayDecodeFails(c)
        \/ ApplyTextOverlayResume(c)
        \/ ApplyTextOverlayReturn(c)

Spec == Init /\ [][Next]_vars


(***************************************************************************)
(* The API handler (module.exports): one request from its arrival to its   *)
(* response.  The handler runs to `await fetchImageFromUrl` in one step,   *)
(* from the fetch to applyTextOverlay's `await loadImage` in another, and  *)
(* from there to the response in a third.                                  *)
(***************************************************************************)
requiredStyleFields == <<"fontFamily", "backdropColor", "backdropOpacity", "textColor">>

\* A styleConfig of the request body: absent, a JSON string, or an object
\* with some of the fields.
StyleConfigs ==
    {[kind |-> "absent", fields |-> {}, fontFamily |-> None],
     [kind |-> "string", fields |-> {}, fontFamily |-> None]}
    \cup {[kind |-> "object", fields |-> F, fontFamily |-> IF "fontFamily" \in F THEN "Inter" ELSE None] :
             F \in SUBSET {requiredStyleFields[i] : i \in 1..4}}
    \cup {[kind |-> "object", fields |-> {requiredStyleFields[i] : i \in 1..4},
           fontFamily |-> "Comic Sans"]}

\* req.body: null when the request has no body, else the parsed JSON object
\* (imageUrl "" and text <<>> stand for a missing or empty field).
Bodies ==
    {[kind |-> "null", imageUrl |-> "", text |-> <<>>,
      styleConfig |-> [kind |-> "absent", fields |-> {}, fontFamily |-> None]]}
    \cup {[kind |-> "object", imageUrl |-> u, text |-> t, styleConfig |-> sc] :
             u \in {"", "https://img"}, t \in {<<>>, <<"m">>}, sc \in StyleConfigs}

\* process.env.API_KEY: not configured, or the key.
ApiKeys == {None, "secret"}

\* req.headers.authorization (None: no such header).
AuthHeaders == {None, "Basic secret", "Bearer secret", "Bearer guess"}

Requests ==
    {[method |-> m, apiKey |-> None, authorization |-> None, body |-> b] :
        m \in {"OPTIONS", "GET"},
        b \in {x \in Bodies : x.kind = "null"}}
    \cup {[method |-> "POST", apiKey |-> k, authorization |-> a, body |-> b] :
            k \in ApiKeys, a \in AuthHeaders, b \in Bodies}

\* authHeader.startsWith('Bearer ') and authHeader.substring(7)
startsWithBearer(h) == h \in {"Bearer secret", "Bearer guess"}
substring7(h) == IF h = "Bearer secret" THEN "secret" ELSE "guess"

\* res.status(s).json({ error, message }) / .end() / .send(buffer); the
\* error text `Missing required ... field: ${field}` is kept as text and field.
Json(status, error, field, message) ==
    [status |-> status, contentType |-> "application/json", body |-> "json",
     error |-> error, field |-> field, message |-> message]
End(status) ==
    [status |-> status, contentType |-> None, body |-> "empty", error |-> None,
     field |-> None, message |-> None]
Send(status, contentType) ==
    [status |-> status, contentType |-> contentType, body |-> "png", error |-> None,
     field |-> None, message |-> None]

\* The catch block of the handler.
Catch(message) == Json(500, "Internal server error", None, message)

\* The loop over requiredStyleFields: the index of the first field that is
\* not in styleConfig, 0 when all are.
RECURSIVE firstMissing(_, _)
firstMissing(fields, i) ==
    IF i > Len(requiredStyleFields) THEN 0
    ELSE IF requiredStyleFields[i] \notin fields THEN i
    ELSE firstMissing(fields, i + 1)

\* A slip: the API key is never compared.
Authorize_AnyBearer(req) ==
    IF req.apiKey = None THEN <<>>
    ELSE IF req.authorization = None \/ ~startsWithBearer(req.authorization)
    THEN << Json(401, "Missing or invalid authorization header", None, None) >>
    ELSE <<>>

\* The API key check: the response it returns, if any.
Authorize(req) ==
    IF req.apiKey = None THEN <<>>
    ELSE IF req.authorization = None \/ ~startsWithBearer(req.authorization)
    THEN << Json(401, "Missing or invalid authorization header", None, None) >>
    ELSE IF substring7(req.authorization) # req.apiKey
    THEN << Json(403, "Invalid API key", None, None) >>
    ELSE <<>>

\* Parsing and validation of the request body: the response it returns, if
\* any.  Destructuring a null body and `field in styleConfig` on a string
\* throw a TypeError, which the catch block answers.
Validate(body) ==
    IF body.kind = "null"
    THEN << Catch("Cannot destructure property 'imageUrl' of 'req.body'") >>
    ELSE IF body.imageUrl = ""
    THEN << Json(400, "Missing required field", "imageUrl", None) >>
    ELSE IF body.text = <<>>
    THEN << Json(400, "Missing required field", "text", None) >>
    ELSE IF body.styleConfig.kind = "absent"
    THEN << Json(400, "Missing required field", "styleConfig", None) >>
    ELSE IF body.styleConfig.kind # "object"
    THEN << Catch("Cannot use 'in' operator to search for 'fontFamily'") >>
    ELSE LET i == firstMissing(body.styleConfig.fields, 1)
         IN  IF i # 0
             THEN << Json(400, "Missing required styleConfig field",
                          requiredStyleFields[i], None) >>
             ELSE <<>>

\* The handler up to the fetch: the response it returns, if any.
Receive(req) ==
    IF req.method = "OPTIONS" THEN << End(200) >>
    ELSE IF req.method # "POST" THEN << Json(405, "Method not allowed", None, None) >>
    ELSE IF Authorize(req) # <<>> THEN Authorize(req)
    ELSE Validate(req.body)

\* What fetch(url) does: it rejects, or resolves with a response that is ok
\* or not.
FetchOutcomes == {"rejects", "notOk", "ok"}

\* A slip: the response's status is not looked at.
responseThrows_Never(outcome) == FALSE

\* if (!response.ok) throw new Error(`Failed to fetch image: ...`)
responseThrows(outcome) == outcome = "notOk"

\* What the canvas library does once the font is resolved: loadImage rejects,
\* a drawing call throws, toBuffer throws, or all succeed.
CanvasOutcomes == {"loadImage", "draw", "toBuffer", "ok"}

\* The values of the styleConfig fields of the handler's requests.
HandlerStyle ==
    [textColor |-> "#FFFFFF", backdropColor |-> "#4A90A4", backdropOpacity |-> 85]

HandlerIdle ==
    [pc |-> "idle", req |-> None, responses |-> <<>>, fetched |-> FALSE,
     succeeded |-> {}, ops |-> <<>>]

InitHandler ==
    /\ variant \in Variants
    /\ phase = "handler"
    /\ text = <<>>
    /\ font = None
    /\ layout = None
    /\ region = <<>>
    /\ analysis = None
    /\ accessible \in {FontFiles(variant), FontFiles(variant) \ {FontFileOf(variant, "Inter")}}
    /\ aliasResult \in {"styles", "empty", "absent"}
    /\ registry = <<>>
    /\ calls = <<>>
    /\ handler = HandlerIdle

\* module.exports(req, res) up to `await fetchImageFromUrl(imageUrl)`, or to
\* the response it returns before.
HandlerReceive ==
    /\ handler.pc = "idle"
    /\ \E req \in Requests :
          handler' = IF Receive(req) # <<>>
                     THEN [handler EXCEPT !.pc = "responded", !.req = req,
                                          !.responses = Receive(req)]
                     ELSE [handler EXCEPT !.pc = "fetching", !.req = req,
                                          !.fetched = TRUE]
    /\ UNCHANGED <<variant, pureVars, accessible, aliasResult, registry, calls>>

\* fetchImageFromUrl settles; on success applyTextOverlay runs to its
\* `await loadImage`, or to the throw that ends it before.
HandlerFetched ==
    /\ handler.pc = "fetching"
    /\ \E outcome \in FetchOutcomes :
          IF outcome = "rejects" \/ responseThrows(outcome)
          THEN /\ handler' = [handler EXCEPT !.pc = "responded",
                    !.responses = Append(@, Catch(IF outcome = "rejects" THEN "fetch failed"
                                                  ELSE "Failed to fetch image"))]
               /\ registry' = registry
          ELSE LET res == FontResolution(variant, registry, accessible, aliasResult,
                                         handler.req.body.styleConfig.fontFamily)
                   got == IF outcome = "ok" THEN {"fetch"} ELSE {}
               IN  /\ registry' = res.registry
                   /\ handler' =
                        IF res.error # None
                        THEN [handler EXCEPT !.pc = "responded", !.succeeded = got,
                                             !.ops = res.ops,
                                             !.responses = Append(@, Catch(res.error))]
                        ELSE [handler EXCEPT !.pc = "decoding",
                                             !.succeeded = got \cup {"font"},
                                             !.ops = res.ops \o <<PlainOp("createCanvas"),
                                                                  PlainOp("loadImage")>>]
    /\ UNCHANGED <<variant, pureVars, accessible, aliasResult, calls>>

\* The steps of applyTextOverlay the canvas outcome lets succeed.
CanvasSucceeded(outcome) ==
    CASE outcome = "loadImage" -> {}
      [] outcome = "draw" -> {"decode"}
      [] outcome = "toBuffer" -> {"decode", "draw"}
      [] outcome = "ok" -> {"decode", "draw", "encode"}

\* loadImage settles and the rest of applyTextOverlay and of the handler run:
\* the PNG is sent, or the catch block answers the error thrown.
HandlerRendered ==
    /\ handler.pc = "decoding"
    /\ \E outcome \in CanvasOutcomes :
          handler' =
            IF outcome = "ok"
            THEN [handler EXCEPT !.pc = "responded",
                     !.succeeded = @ \cup CanvasSucceeded(outcome),
                     !.ops = @ \o Compose(variant, handler.req.body.text, White, HandlerStyle),
                     !.responses = Append(@, Send(200, "image/png"))]
            ELSE [handler EXCEPT !.pc = "responded",
                     !.succeeded = @ \cup CanvasSucceeded(outcome),
                     !.responses = Append(@, Catch(outcome))]
    /\ UNCHANGED <<variant, pureVars, accessible, aliasResult, registry, calls>>

NextHandler == HandlerReceive \/ HandlerFetched \/ HandlerRendered

SpecHandler == InitHandler /\ [][NextHandler]_vars

(***************************************************************************)
(* Properties of the layout step                                           *)
(***************************************************************************)
LayoutDone == phase = "done" /\ variant \in WrapVariants

\* The box calculateTextLayout is called with, written out from OVERLAY_CONFIG.
BoxWidth == TEXT_AREA_WIDTH(variant) - 2 * TEXT_PADDING_HORIZONTAL
BoxHeight == TEXT_AREA_HEIGHT - 2 * TEXT_PADDING_VERTICAL

SizeGrid ==
    {s \in FONT_SIZE_MIN..FONT_SIZE_MAX : (FONT_SIZE_MAX - s) % FONT_SIZE_STEP = 0}

SingleLineFits(s) == measureText(font, text, s) <= 10 * BoxWidth

WrapFits(s) ==
    LET w == wrapText(font, text, s, BoxWidth)
    IN  Len(w) <= 2 /\ 12 * Len(w) * s <= 10 * BoxHeight

Acceptable(s) == SingleLineFits(s) \/ WrapFits(s)

LineFits(line) == measureText(font, line, layout.fontSize) <= 10 * BoxWidth

\* The words of a sequence of lines, in order.
RECURSIVE WordsOf(_)
WordsOf(lines) ==
    IF lines = <<>> THEN <<>> ELSE split(Head(lines)) \o WordsOf(Tail(lines))

\* C1: for every non-empty caption (captions of spaces only included) the
\* layout of calculateTextLayout has one or two lines and a font size between
\* FONT_SIZE_MIN and FONT_SIZE_MAX.
C1_LinesAndSizeWithinCaps ==
    LayoutDone =>
        /\ 1 <= Len(layout.lines)
        /\ Len(layout.lines) <= 2
        /\ FONT_SIZE_MIN <= layout.fontSize
        /\ layout.fontSize <= FONT_SIZE_MAX

\* C2: the layout of calculateTextLayout fits the box: no returned line is
\* wider than maxWidth at the returned size, and the lines' total height
\* (lines * fontSize * 1.2) is at most maxHeight.
C2_LayoutFitsBox ==
    LayoutDone =>
        /\ \A i \in 1..Len(layout.lines) : LineFits(layout.lines[i])
        /\ 12 * Len(layout.lines) * layout.fontSize <= 10 * BoxHeight

\* C3: when some size of the grid 120, 118, ..., 80 is acceptable, the layout
\* has the largest acceptable size, and at that size it is the single line
\* [caption] if the caption fits on one line and the greedy wrap otherwise.
C3_LargestAcceptableSize ==
    (LayoutDone /\ \E s \in SizeGrid : Acceptable(s)) =>
        LET best == CHOOSE s \in SizeGrid :
                        Acceptable(s) /\ \A s2 \in SizeGrid : Acceptable(s2) => s2 <= s
        IN  /\ layout.fontSize = best
            /\ layout.lines = IF SingleLineFits(best)
                              THEN <<text>>
                              ELSE wrapText(font, text, best, BoxWidth)

\* C3's case: no size fits on one line, and a two-line wrap is chosen below
\* FONT_SIZE_MAX.
C3_Witness ==
    /\ LayoutDone
    /\ \E s \in SizeGrid : Acceptable(s)
    /\ \A s \in SizeGrid : ~SingleLineFits(s)
    /\ Len(layout.lines) = 2
    /\ layout.fontSize < FONT_SIZE_MAX

\* C4 (as claimed): a caption measuring less than TEXT_AREA_WIDTH at
\* FONT_SIZE_MAX is laid out by applyTextOverlay as one line at FONT_SIZE_MAX.
C4_NarrowerThanTextArea ==
    (phase = "done"
       /\ measureText(font, text, FONT_SIZE_MAX) < 10 * TEXT_AREA_WIDTH(variant)) =>
        /\ Len(layout.lines) = 1
        /\ layout.fontSize = FONT_SIZE_MAX

\* C4 (amended): a caption measuring at most TEXT_AREA_WIDTH minus twice
\* TEXT_PADDING_HORIZONTAL at FONT_SIZE_MAX is laid out by applyTextOverlay as
\* the one line [caption] at FONT_SIZE_MAX.
C4_NarrowerThanPaddedTextArea ==
    (phase = "done" /\ measureText(font, text, FONT_SIZE_MAX) <= 10 * BoxWidth) =>
        /\ layout.lines = <<text>>
        /\ layout.fontSize = FONT_SIZE_MAX

\* C4's case: a caption of several words that fits the padded width at
\* FONT_SIZE_MAX has been laid out.
C4_Witness ==
    /\ LayoutDone
    /\ measureText(font, text, FONT_SIZE_MAX) <= 10 * BoxWidth
    /\ measureText(font, text, FONT_SIZE_MAX) > 10 * (BoxWidth - 2 * TEXT_PADDING_HORIZONTAL)
    /\ \E i \in 1..Len(text) : text[i] = " "
    /\ \E i \in 1..Len(text) : text[i] # " "

\* C5: when no size passes the single-line or the two-line test, the layout is
\* FONT_SIZE_MIN with exactly the first two lines of the greedy wrap at
\* FONT_SIZE_MIN; the words of the later lines are in no returned line, and no
\* returned line overflows maxWidth.
C5_FallbackTruncatesWithoutOverflow ==
    (LayoutDone /\ \A s \in SizeGrid : ~Acceptable(s)) =>
        LET w == wrapText(font, text, FONT_SIZE_MIN, BoxWidth)
        IN  /\ layout.fontSize = FONT_SIZE_MIN
            /\ Len(layout.lines) = 2
            /\ layout.lines = SubSeq(w, 1, 2)
            /\ WordsOf(layout.lines) \o WordsOf(SubSeq(w, 3, Len(w))) = WordsOf(w)
            /\ Len(WordsOf(layout.lines)) < Len(WordsOf(w))
            /\ \A i \in 1..Len(layout.lines) : LineFits(layout.lines[i])

(***************************************************************************)
(* Properties of the background analysis                                   *)
(***************************************************************************)
\* The pixels of the text area the analysis reads: every 10th, from the first.
SampledPixels == {i \in 1..Len(region) : (i - 1) % 10 = 0}

RECURSIVE SumBrightness(_)
SumBrightness(S) ==
    IF S = {} THEN 0
    ELSE LET i == CHOOSE j \in S : TRUE
         IN  299 * region[i].r + 587 * region[i].g + 114 * region[i].b
               + SumBrightness(S \ {i})

\* The average of 0.299R + 0.587G + 0.114B over the sampled pixels exceeds 128.
AverageAbove128 == SumBrightness(SampledPixels) > 128000 * Cardinality(SampledPixels)

BrightnessDone == phase = "done" /\ variant = "brightness"

\* C6: in the brightness variant the text is black with a white stroke exactly
\* when the sampled average brightness is strictly above 128, and white with a
\* black stroke otherwise (an average of exactly 128 included); so an all-white
\* text area gives black text and an all-black one white text.
C6_BrightnessThreshold ==
    BrightnessDone =>
        /\ AverageAbove128 =>
              analysis.textColor = "#000000" /\ analysis.strokeColor = "#FFFFFF"
        /\ ~AverageAbove128 =>
              analysis.textColor = "#FFFFFF" /\ analysis.strokeColor = "#000000"
        /\ (\A i \in 1..Len(region) : region[i] = White) => analysis.textColor = "#000000"
        /\ (\A i \in 1..Len(region) : region[i] = Black) => analysis.textColor = "#FFFFFF"

\* C6's case: the sampled average is exactly 128 and the text came out white.
C6_Witness ==
    /\ BrightnessDone
    /\ SumBrightness(SampledPixels) = 128000 * Cardinality(SampledPixels)
    /\ analysis.textColor = "#FFFFFF"

ContrastDone == phase = "done" /\ region = <<>> /\ text = <<>>

WhiteContrastOf(c) == getContrastRatio(c.r, c.g, c.b, 255, 255, 255)
BlackContrastOf(c) == getContrastRatio(c.r, c.g, c.b, 0, 0, 0)

\* C7: for every dominant colour getContrastingTextColor returns '#FFFFFF'
\* exactly when the white contrast ratio is at least the black one and
\* '#000000' otherwise: it always returns one of the two, and the 4.5
\* threshold does not change the choice.
C7_HigherContrastWins ==
    ContrastDone =>
        LET c == analysis.dominantColor
        IN  /\ analysis.textColor \in {"#FFFFFF", "#000000"}
            /\ analysis.textColor = "#FFFFFF"
                  <=> WhiteContrastOf(c).num * BlackContrastOf(c).den
                        >= BlackContrastOf(c).num * WhiteContrastOf(c).den

\* C7's case: white reaches 4.5:1 and black still has the higher contrast, so
\* black was returned.
C7_Witness ==
    /\ ContrastDone
    /\ 10 * WhiteContrastOf(analysis.dominantColor).num
          >= 45 * WhiteContrastOf(analysis.dominantColor).den
    /\ analysis.textColor = "#000000"

CountOf(p) == Cardinality({i \in 1..Len(region) : region[i] = p})

\* C8: a text area of 90% pure red and 10% pure blue pixels, in any
\* arrangement, gives the red bucket (224, 0, 0) as dominant colour.
C8_NinetyPercentRedIsDominant ==
    (phase = "done" /\ variant = "dominant" /\ region # <<>>
       /\ 10 * CountOf(Red) = 9 * Len(region)
       /\ 10 * CountOf(Blue) = Len(region)) =>
        analysis.dominantColor = Pixel(224, 0, 0)

(***************************************************************************)
(* Properties of font resolution                                           *)
(***************************************************************************)
\* Call c leaves applyTextOverlay's synchronous first part in this step.
Starts(c) == calls[c].pc = "idle" /\ calls'[c].pc # "idle"

OpsOf(c) == {calls[c].ops[i].op : i \in 1..Len(calls[c].ops)}

\* C9: for every fontFamily that is not a supported family name,
\* applyTextOverlay fails with the unknown-font-family error, before any
\* font-file check, registration, canvas creation or image decode, and leaves
\* the registry unchanged.
C9_UnsupportedFamilyIsUnknown ==
    [][\A c \in Calls :
          (Starts(c) /\ calls'[c].fontFamily \notin FontFamilyNames(variant)) =>
              /\ calls'[c].pc = "failed"
              /\ calls'[c].error = "Unknown font family"
              /\ calls'[c].ops = <<>>
              /\ registry' = registry]_vars

\* C10: when the font file of a supported family cannot be stat'ed,
\* applyTextOverlay fails with the font-file-not-accessible error; the call
\* never reaches registerFromPath, the registry is unchanged, no canvas is
\* created and no image is decoded or drawn, then or later.
C10_InaccessibleFontFileFailsBeforeRegistration ==
    [][\A c \in Calls :
          /\ (Starts(c) /\ calls'[c].fontFamily \in FontFamilyNames(variant)
                /\ FontFileOf(variant, calls'[c].fontFamily) \notin accessible) =>
                 /\ calls'[c].pc = "failed"
                 /\ calls'[c].error = "Font file not accessible"
                 /\ calls'[c].ops = <<PlainOp("statSync")>>
                 /\ registry' = registry
          /\ calls[c].pc = "failed" => calls'[c] \in {calls[c], IdleCall}]_vars

\* C10's case: a call for a supported family has failed on its font file
\* while another call had registered its font.
C10_Witness ==
    \E c \in Calls :
        /\ calls[c].pc = "failed"
        /\ calls[c].fontFamily \in FontFamilyNames(variant)
        /\ calls[c].error = "Font file not accessible"
        /\ OpsOf(c) = {"statSync"}
        /\ registry # <<>>

(***************************************************************************)
(* Properties of the API handler                                           *)
(***************************************************************************)
AllSteps == {"fetch", "font", "decode", "draw", "encode"}

Responded == phase = "handler" /\ handler.pc = "responded"

\* The message of the error thrown by the first step that did not succeed.
FailureMessages(succeeded) ==
    IF "fetch" \notin succeeded THEN {"fetch failed", "Failed to fetch image"}
    ELSE IF "font" \notin succeeded
    THEN {"Unknown font family", "ERR_INVALID_ARG_TYPE", "Font file not accessible"}
    ELSE IF "decode" \notin succeeded THEN {"loadImage"}
    ELSE IF "draw" \notin succeeded THEN {"draw"}
    ELSE {"toBuffer"}

\* C11: the handler answers 200 with Content-Type image/png and PNG bytes only
\* when the fetch, the font resolution, the decode, the drawing and the PNG
\* encoding all succeeded; when one of them fails the request ends with
\* exactly one response, a 500 JSON error carrying the failure's message, and
\* neither PNG bytes nor the image/png header are sent.  Nothing is sent
\* before the request ends.
C11_PngOnlyWhenAllStepsSucceed ==
    phase = "handler" =>
        /\ handler.pc # "responded" => handler.responses = <<>>
        /\ handler.pc = "responded" =>
              /\ Len(handler.responses) = 1
              /\ LET r == handler.responses[1]
                 IN  /\ (r.body = "png" \/ r.contentType = "image/png") =>
                            /\ r.status = 200
                            /\ r.body = "png"
                            /\ r.contentType = "image/png"
                            /\ handler.succeeded = AllSteps
                     /\ (handler.fetched /\ handler.succeeded # AllSteps) =>
                            /\ r.status = 500
                            /\ r.body = "json"
                            /\ r.contentType = "application/json"
                            /\ r.message \in FailureMessages(handler.succeeded)

\* C11's case: everything up to the PNG encoding succeeded, the encoding
\* threw, and the request was answered 500.
C11_Witness ==
    /\ Responded
    /\ handler.succeeded = AllSteps \ {"encode"}
    /\ handler.responses[1].status = 500

(***************************************************************************)
(* Properties of calls sharing the font registry                           *)
(***************************************************************************)
SameInputs(c, d) ==
    /\ calls[c].fontFamily = calls[d].fontFamily
    /\ calls[c].text = calls[d].text
    /\ calls[c].image = calls[d].image
    /\ calls[c].style = calls[d].style

\* The text colour a finished call filled its lines with.
FillColors(c) ==
    {calls[c].ops[i].color : i \in {j \in 1..Len(calls[c].ops) : calls[c].ops[j].op = "fillText"}}

\* The drawing part of a call's operations: what follows loadImage.
DrawOps(c) ==
    LET k == CHOOSE i \in 1..Len(calls[c].ops) : calls[c].ops[i].op = "loadImage"
    IN  SubSeq(calls[c].ops, k + 1, Len(calls[c].ops))

\* C12: two finished applyTextOverlay calls with the same image, text and
\* styleConfig that both started when the registry already held the requested
\* family have the same effective family name, font weight, text colour, font
\* size, lines and sequence of draw operations, whatever other families were
\* registered between them.
C12_WarmCallsAgree ==
    phase = "service" =>
        \A c, d \in Calls :
            (calls[c].pc = "done" /\ calls[d].pc = "done" /\ SameInputs(c, d)
               /\ calls[c].warm /\ calls[d].warm) =>
                /\ calls[c].fontFamilyToUse = calls[d].fontFamilyToUse
                /\ fontWeight(variant, calls[c].hasStyles)
                      = fontWeight(variant, calls[d].hasStyles)
                /\ FillColors(c) = FillColors(d)
                /\ TextLayout(variant, ServiceFont, calls[c].text)
                      = TextLayout(variant, ServiceFont, calls[d].text)
                /\ DrawOps(c) = DrawOps(d)

\* C12's case: two such calls have finished, and the second started with
\* more families in the registry than the first.
C12_Witness ==
    /\ phase = "service"
    /\ \E c, d \in Calls :
          /\ calls[c].pc = "done" /\ calls[d].pc = "done" /\ SameInputs(c, d)
          /\ calls[c].warm /\ calls[d].warm
          /\ calls[c].seen < calls[d].seen

\* The families a call's own registrations can put in the registry: the
\* requested name and the internal name of its font file.
OwnFamilies(c) ==
    {calls[c].fontFamily, InternalName(FontFileOf(variant, calls[c].fontFamily))}

Resolved(c) == calls[c].pc \in {"decoding", "done"}

\* C13: under every interleaving of calls sharing the registry, a call for a
\* family that is already registered does not fail in font resolution, and
\* the effective family of a call is the requested family or its own font's
\* name, never a family that only another call's different font put in the
\* registry.
C13_EffectiveFamilyIsOwn ==
    phase = "service" =>
        \A c \in Calls :
            /\ (calls[c].pc # "idle" /\ calls[c].warm) =>
                   calls[c].error \in {None, "Unsupported image type"}
            /\ Resolved(c) => calls[c].fontFamilyToUse \in OwnFamilies(c)

\* The request in hand is a POST.
Posted == phase = "handler" /\ handler.pc # "idle" /\ handler.req.method = "POST"

NotFetchedNorRendered ==
    /\ handler.pc = "responded"
    /\ ~handler.fetched
    /\ handler.ops = <<>>
    /\ registry = <<>>

\* C14: with API_KEY configured, a POST whose Authorization header is absent
\* or does not start with 'Bearer ' is answered 401 and one whose bearer token
\* differs from API_KEY is answered 403, the image being neither fetched nor
\* rendered; with API_KEY not configured no request is answered 401 or 403,
\* whatever its Authorization header.
C14_ApiKeyCheck ==
    Posted =>
        LET req == handler.req
            bearer == req.authorization \in {"Bearer secret", "Bearer guess"}
        IN  /\ (req.apiKey # None /\ ~bearer) =>
                   /\ NotFetchedNorRendered
                   /\ handler.responses[1].status = 401
            /\ (req.apiKey # None /\ bearer /\ req.authorization # "Bearer secret") =>
                   /\ NotFetchedNorRendered
                   /\ handler.responses[1].status = 403
            /\ (req.apiKey = None /\ handler.pc = "responded") =>
                   /\ handler.responses[1].status \notin {401, 403}
                   /\ handler.fetched
                        \/ handler.responses = Validate(req.body)

\* C14's case: a POST with a wrong bearer token and an otherwise complete
\* body has been answered 403.
C14_Witness ==
    /\ Posted
    /\ handler.req.apiKey # None
    /\ handler.req.authorization = "Bearer guess"
    /\ Validate(handler.req.body) = <<>>
    /\ handler.pc = "responded"
    /\ handler.responses[1].status = 403

\* The first thing a request body lacks, in the order imageUrl, text,
\* styleConfig, fontFamily, backdropColor, backdropOpacity, textColor
\* (None: nothing).  A body that is null lacks everything; a styleConfig
\* that is not an object has none of the four fields.
FirstLacking(body) ==
    IF body.kind = "null" \/ body.imageUrl = "" THEN "imageUrl"
    ELSE IF body.text = <<>> THEN "text"
    ELSE IF body.styleConfig.kind = "absent" THEN "styleConfig"
    ELSE LET missing == {i \in 1..4 : requiredStyleFields[i] \notin body.styleConfig.fields}
         IN  IF missing = {} THEN None
             ELSE requiredStyleFields[CHOOSE i \in missing : \A j \in missing : i <= j]

\* The request in hand is a POST that passed the API key check.
Authenticated ==
    /\ Posted
    /\ handler.req.apiKey = None \/ handler.req.authorization = "Bearer secret"

\* C15: an authenticated POST that lacks imageUrl, text, styleConfig or one of
\* the four styleConfig fields is answered 400 naming the first missing field
\* in that order, and its image URL is never fetched, in every variant.
C15_MissingFieldIs400 ==
    (Authenticated /\ FirstLacking(handler.req.body) # None) =>
        /\ NotFetchedNorRendered
        /\ handler.responses[1].status = 400
        /\ handler.responses[1].field = FirstLacking(handler.req.body)

(***************************************************************************)
(* Properties of the composition                                           *)
(***************************************************************************)
\* The operations of a call that are of one of the given kinds, in order.
OpsOfKind(c, kinds) == SelectSeq(calls[c].ops, LAMBDA o : o.op \in kinds)

\* The colour a six-digit hex string denotes, as "r, g, b".
RgbOf(hex) ==
    CASE hex = "#4A90A4" -> "74, 144, 164"
      [] hex = "#404040" -> "64, 64, 64"

\* C16: in the caller-specified variant the backdrop is filled with exactly
\* styleConfig.backdropColor at exactly styleConfig.backdropOpacity, for
\* every opacity in [0, 1], 0 included, and every line of text is filled with
\* exactly styleConfig.textColor.
C16_CallerColoursUsedAsGiven ==
    (phase = "service" /\ variant = "explicit") =>
        \A c \in Calls :
            calls[c].pc = "done" =>
                /\ OpsOfKind(c, {"fill"}) =
                      << Op("fill", 0, RgbOf(calls[c].style.backdropColor),
                            calls[c].style.backdropOpacity, None) >>
                /\ FillColors(c) = {calls[c].style.textColor}

\* The operations of a call that draw the caption text.
TextOps(c) == OpsOfKind(c, {"strokeText", "fillText"})

\* C17 (as claimed): in every variant stroke and shadow are mutually
\* exclusive: no call both strokes the caption and draws the caption with a
\* shadow set on the context.
C17_StrokeExcludesShadow ==
    phase = "service" =>
        \A c \in Calls :
            ~ /\ \E i \in 1..Len(TextOps(c)) : TextOps(c)[i].op = "strokeText"
              /\ \E i \in 1..Len(TextOps(c)) : TextOps(c)[i].shadow # None

\* C17 (amended): a backdrop excludes stroke and shadow: a call that fills a
\* backdrop neither strokes the caption nor draws it with a shadow set; and
\* the stroke itself is never drawn with a shadow set (the brightness
\* variant strokes without shadow, then fills with the shadow).
C17_BackdropExcludesStrokeAndShadow ==
    phase = "service" =>
        \A c \in Calls :
            /\ OpsOfKind(c, {"fill"}) # <<>> =>
                  \A i \in 1..Len(TextOps(c)) :
                      TextOps(c)[i].op = "fillText" /\ TextOps(c)[i].shadow = None
            /\ \A i \in 1..Len(TextOps(c)) :
                  TextOps(c)[i].op = "strokeText" => TextOps(c)[i].shadow = None

\* C17's case: a call that filled a backdrop and drew two lines on it has
\* finished.
C17_Witness ==
    /\ phase = "service"
    /\ \E c \in Calls :
          /\ calls[c].pc = "done"
          /\ OpsOfKind(c, {"fill"}) # <<>>
          /\ Len(TextOps(c)) = 2

\* The positions of the operations of the given kinds in a sequence.
At(ops, kinds) == {i \in 1..Len(ops) : ops[i].op \in kinds}

Before(S, T) == \A i \in S, j \in T : i < j

\* C18: in every successful call the background image is drawn first; the
\* background is sampled, when it is, after that and before any backdrop or
\* text; the backdrop, if any, is filled before any text; the lines are
\* drawn in index order, the stroke of a line, if any, before its fill; the
\* PNG encoding is the last operation.
C18_OperationOrder ==
    phase = "service" =>
        \A c \in Calls :
            calls[c].pc = "done" =>
                LET D == DrawOps(c)
                    text_ == At(D, {"strokeText", "fillText"})
                IN  /\ At(D, {"drawImage"}) = {1}
                    /\ At(D, {"toBuffer"}) = {Len(D)}
                    /\ Before(At(D, {"getImageData"}), At(D, {"fill"}) \cup text_)
                    /\ Before(At(D, {"fill"}), text_)
                    /\ \A i, j \in text_ : i < j => D[i].line <= D[j].line
                    /\ \A i, j \in text_ :
                          (D[i].line = D[j].line /\ D[i].op = "strokeText"
                             /\ D[j].op = "fillText") => i < j
                    /\ \A l \in 1..Len(TextLayout(variant, ServiceFont, calls[c].text).lines) :
                          Cardinality({i \in At(D, {"fillText"}) : D[i].line = l}) = 1

\* C18's case: a call that sampled the background, filled a backdrop and
\* drew two lines has finished.
C18_Witness ==
    /\ phase = "service"
    /\ \E c \in Calls :
          /\ calls[c].pc = "done"
          /\ At(DrawOps(c), {"getImageData"}) # {}
          /\ At(DrawOps(c), {"fill"}) # {}
          /\ Cardinality(At(DrawOps(c), {"fillText"})) = 2

(***************************************************************************)
(* Properties of the shadow of the brightness variant                      *)
(***************************************************************************)
\* C19: in the brightness variant the shadow applied to the text is
\* black-based when the background is light (average brightness above 128)
\* and white-based when it is dark.
C19_ShadowTintFollowsBackground ==
    BrightnessDone =>
        /\ AverageAbove128 => analysis.textShadow.color = "rgba(0, 0, 0, 0.8)"
        /\ ~AverageAbove128 => analysis.textShadow.color = "rgba(255, 255, 255, 0.8)"

(***************************************************************************)
(* Properties of the backdrop geometry                                     *)
(***************************************************************************)
\* Rectangle r lies inside rectangle s.
Inside(r, s) ==
    /\ s.x <= r.x
    /\ r.x + r.width <= s.x + s.width
    /\ s.y <= r.y
    /\ r.y + r.height <= s.y + s.height

\* C20: in both backdrop variants, for every caption, the backdrop rectangle
\* lies entirely inside the text-area rectangle and the box of every drawn
\* line lies inside the backdrop.
C20_BackdropInsideTextArea ==
    LayoutDone =>
        /\ Inside(Backdrop(variant, font, layout), TextArea(variant))
        /\ \A i \in 1..Len(layout.lines) :
              Inside(LineBox(variant, font, layout, i), Backdrop(variant, font, layout))

(***************************************************************************)
(* Properties of wrapText                                                  *)
(***************************************************************************)
WrapDone == phase = "wrapped"

\* The caption's words are non-empty and separated by single spaces.
SingleSpaced(t) ==
    /\ t # <<>>
    /\ t[1] # " "
    /\ t[Len(t)] # " "
    /\ \A i \in 1..(Len(t) - 1) : ~(t[i] = " " /\ t[i + 1] = " ")

\* lines.join(' ')
RECURSIVE JoinLines(_)
JoinLines(lines) ==
    IF lines = <<>> THEN <<>>
    ELSE IF Len(lines) = 1 THEN Head(lines)
    ELSE Head(lines) \o <<" ">> \o JoinLines(Tail(lines))

\* C21: for every caption whose words are non-empty and separated by single
\* spaces, every maxWidth and every measure, the lines wrapText returns,
\* joined with single spaces, are the caption: no word is lost, duplicated,
\* split or reordered.
C21_WrapKeepsTheWords ==
    (WrapDone /\ SingleSpaced(text)) => JoinLines(layout.lines) = text

\* C21's case: a caption of three words of different letters was wrapped
\* into two lines, one of them of two words.
C21_Witness ==
    /\ WrapDone
    /\ SingleSpaced(text)
    /\ Len(split(text)) = 3
    /\ \E i, j \in 1..Len(text) : text[i] = "m" /\ text[j] = "w"
    /\ Len(layout.lines) = 2

(***************************************************************************)
(* Properties of the two-line layouts                                      *)
(***************************************************************************)
\* C22: with the configured box (maxHeight 240, line height 1.2 x fontSize)
\* every two-line layout of calculateTextLayout has a font size of at most
\* 100: the sizes 102..120 are returned with exactly one line only.
C22_TwoLinesAtMost100 ==
    LayoutDone =>
        /\ BoxHeight = 240
        /\ Len(layout.lines) = 2 => layout.fontSize <= 100
        /\ layout.fontSize >= 102 => Len(layout.lines) = 1

====
